---- MODULE Spec2Model ----
(***************************************************************************)
(* The "add to home screen" widget of the repository (Waheim SDK, the      *)
(* modern build in src/unnamed/part_000): standalone detection, the SDK    *)
(* facade (init / shouldShowDrawer / showDrawer / closeDrawer), the shared *)
(* Drawer object (create / open / close) and the one-shot auto             *)
(* initialisation, as a state machine of browser tasks.                    *)
(*                                                                         *)
(* One step is one macrotask of the event loop: an API call made by page   *)
(* code, a timer callback, a fetch completion or a platform event.  The    *)
(* continuation that follows "await this.drawer.create(...)" in showDrawer *)
(* runs as a microtask of the task that resolved create, so the DOM        *)
(* insertion and the open() that follows it are one step.                  *)
(*                                                                         *)
(* Not modelled: the markup text, the colours and the opacity/transform    *)
(* styles (presentation only, no handler reads them back).                 *)
(***************************************************************************)
EXTENDS Integers, FiniteSets, Sequences, TLC

(* ------------------------------ bounds -------------------------------- *)

\* Drawer.create runs over the lifetime of the page (one fresh id each).
MaxCreates == 2

\* Cap on each kind of pending timer and on the registered
\* beforeinstallprompt listeners.
MaxPending == 2

\* Document-ready signals delivered to safeInitialize.
MaxReadySignals == 2

(* ------------------------- program constants -------------------------- *)

\* init: config.delay default.
DefaultDelay == 500

\* init: config.autoShow default.
DefaultAutoShow == TRUE

(* ----------------------------- inputs --------------------------------- *)

\* The four standalone signals read by utils.isStandalone and init.
Signals == {"displayModeStandalone", "displayModeFullscreen",
            "displayModeMinimalUI", "iosStandalone"}

\* An optional field of an options object: <<>> when the key is absent,
\* <<v>> when it is given.
Opt(S) == {<< >>} \cup {<<v>> : v \in S}

\* Delays page code passes to init.
DelayValues == {0}

\* The options objects page code passes to init / shouldShowDrawer.
Options == [autoShow : Opt(BOOLEAN), delay : Opt(DelayValues), mobileOnly : Opt(BOOLEAN)]

\* init() / showDrawer() called without an argument: options = {}.
NoOptions == [autoShow |-> << >>, delay |-> << >>, mobileOnly |-> << >>]

\* Drawer ids handed out by utils.generateId; 0 stands for null.
Ids == 1..MaxCreates

VARIABLES
  sig,               \* [Signals -> BOOLEAN]: what matchMedia / navigator.standalone report now
  mobile,            \* utils.isMobile(): the user agent is a mobile one
  scriptRun,         \* the tail of the script (readyState test) has run
  listening,         \* safeInitialize is registered for DOMContentLoaded
  readySignals,      \* document-ready signals delivered so far
  sdkInitialized,    \* the one-shot flag of safeInitialize
  initializeSDKRuns, \* how many times initializeSDK has run
  showTimers,        \* [delay -> number of pending showDrawer timers set by init]
  bipListeners,      \* beforeinstallprompt listeners registered by init
  createPc,          \* [Ids -> where that Drawer.create run is]
  sheets,            \* ids of the drawer sheets present in the document
  overlays,          \* ids of the overlays present in the document
  isOpen,            \* Drawer.isOpen
  element,           \* Drawer.element (0 = null)
  overlay,           \* Drawer.overlay (0 = null)
  themeListener,     \* Drawer.themeListener (0 = null)
  mqlListeners,      \* listeners attached to the prefers-color-scheme query
  bodyOverflow,      \* document.body.style.overflow
  openTimers,        \* pending 10 ms timers of open()
  closeTimers,       \* pending 300 ms teardown timers of close()
  closing,           \* history: for each pending teardown timer, in the order set, the
                     \* id Drawer.element held when that close() ran
  favicon,           \* the page's favicon link as getFaviconFromHtml finds it ("" = null)
  iconSize,          \* the size getAppIcon was called with
  iconPc,            \* where the getAppIcon call is
  response,          \* how the manifest fetch of that call settled
  manifest,          \* the promise loadManifest returned to it
  probes,            \* the HEAD probes that call issued, in order, with their outcomes
  appIcon,           \* what getAppIcon returned
  language,          \* navigator.language (<<>> = undefined)
  userLanguage,      \* navigator.userLanguage (<<>> = undefined)
  trKey,             \* translateText: the key of the last call
  trFallback,        \* translateText: the fallbackText of the last call (<<>> = omitted)
  trResult,          \* translateText: what the last call returned (<<>> = undefined)
  stored,            \* localStorage item 'watched_videos'
  saves,             \* history: the videos passed to saveWatchedVideo, in call order
  deferredPrompt,    \* window.deferredPrompt (0 = undefined)
  bipEvents,         \* beforeinstallprompt events delivered so far (the n-th is event n)
  defaultPrevented,  \* the events whose default behaviour was suppressed
  createManifest,    \* Drawer.create: the promise its own loadManifest() returned
  manifestLoads,     \* history: loadManifest calls settled for the create in progress
  appName,           \* the app name interpolated into the last drawer markup
  markupIcon,        \* the icon URI interpolated into the last drawer markup
  dark,              \* matchMedia('(prefers-color-scheme: dark)').matches
  createColors,      \* [Ids -> the palette that Drawer.create run computed at its start]
  sheetStyle,        \* [Ids -> the palette the inline styles of that sheet show]
  overlayStyle,      \* [Ids -> the palette style.background of that overlay shows]
  es5Pc,             \* ES5 build: where the one Drawer.create(options, callback) call is
  es5Favicon,        \* ES5 build: the page's favicon link ("" = null)
  nameLoads,         \* ES5 build: pending requests of create's utils.loadManifest
  iconLoads,         \* ES5 build: pending requests of utils.getAppIcon calls, each with
                     \* the manifest its caller holds
  callbackCalls,     \* history: callback invocations of the loadManifest call settled last
  es5Markup,         \* ES5 build: [appName, appIcon] of each markup inserted, in order
  html,              \* what the proxy serves: the ids each pattern matches, in order
  searchResult,      \* the videoIds of the list searchYouTube returned last
  relatedFor,        \* the videoId fetchRelatedVideos was called with last (0 = never)
  relatedResult,     \* the videoIds of the list fetchRelatedVideos returned last
  currentVideo,      \* now-playing view: the videoId shown (0 = no video selected)
  relatedVideos,     \* now-playing view: the videoIds of the relatedVideos state
  playerReady,       \* playerRef.current is set
  muted,             \* the player is muted
  userInteracted,    \* userInteractedRef.current
  autoPlayTimer,     \* autoPlayTimerRef.current (0 = null)
  pendingTimers,     \* ids of the auto-play timers set and neither fired nor cleared
  timerVideos,       \* [timer id -> the relatedVideos its callback closed over]
  timersSet,         \* timers set so far (the next one gets the next id)
  interactedSinceEnd,\* history: a touch, click, scroll or manual selection happened
                     \* since handleVideoEnd ran last
  last               \* the handler that ran in the last step, the branch it took, its argument

widget == <<showTimers, bipListeners, createPc, sheets, overlays, isOpen, element,
            overlay, themeListener, mqlListeners, bodyOverflow, openTimers, closeTimers,
            closing>>

boot == <<scriptRun, listening, readySignals, sdkInitialized, initializeSDKRuns>>

iconVars == <<favicon, iconSize, iconPc, response, manifest, probes, appIcon>>

translateVars == <<language, userLanguage, trKey, trFallback, trResult>>

historyVars == <<stored, saves>>

promptVars == <<deferredPrompt, bipEvents, defaultPrevented>>

createVars == <<createManifest, manifestLoads, appName, markupIcon>>

es5Vars == <<es5Pc, es5Favicon, nameLoads, iconLoads, callbackCalls, es5Markup>>

searchVars == <<html, searchResult, relatedFor, relatedResult>>

autoPlayVars == <<currentVideo, relatedVideos, playerReady, muted, userInteracted,
                  autoPlayTimer, pendingTimers, timerVideos, timersSet,
                  interactedSinceEnd>>

pageVars == <<iconVars, translateVars, historyVars, promptVars, createVars, es5Vars, searchVars, autoPlayVars>>

themeVars == <<dark, createColors, sheetStyle, overlayStyle>>

sdkVars == <<sig, mobile, boot, widget>>

vars == <<sig, mobile, boot, widget, last, pageVars, themeVars>>

(* ------------------------ capability utilities ------------------------ *)

\* utils.isStandalone: the OR of the three display modes and the iOS flag.
isStandalone(s) ==
  LET displayModeStandalone == s["displayModeStandalone"]
      displayModeFullscreen == s["displayModeFullscreen"]
      displayModeMinimalUI  == s["displayModeMinimalUI"]
      iosStandalone         == s["iosStandalone"]
  IN  displayModeStandalone \/ displayModeFullscreen \/ displayModeMinimalUI \/ iosStandalone

\* Mutant of isAlreadyInstalled: the iOS flag is left out of the aggregate.
isAlreadyInstalled_NoIOS(s) ==
  s["displayModeStandalone"] \/ s["displayModeFullscreen"] \/ s["displayModeMinimalUI"]

\* init: the aggregate "already installed" flag, with the redundant terms
\* the code computes.
isAlreadyInstalled(s) ==
  LET isStandaloneMode        == isStandalone(s)
      isStandaloneDisplayMode == s["displayModeStandalone"]
      isFullscreenDisplayMode == s["displayModeFullscreen"]
      isMinimalUIDisplayMode  == s["displayModeMinimalUI"]
      isIOSStandalone         == s["iosStandalone"]
      hasPWAFeatures          == s["displayModeStandalone"] \/ s["displayModeFullscreen"]
                                   \/ s["displayModeMinimalUI"]
  IN  isStandaloneMode \/ isStandaloneDisplayMode \/ isFullscreenDisplayMode
        \/ isMinimalUIDisplayMode \/ isIOSStandalone \/ hasPWAFeatures

\* JavaScript truthiness of an optional boolean field (undefined is falsy).
Truthy(o) == o = <<TRUE>>

\* init: const config = { autoShow: true, delay: 500, showOnce: false, ...options }.
MergeConfig(options) ==
  [autoShow   |-> IF options.autoShow = << >> THEN <<DefaultAutoShow>> ELSE options.autoShow,
   delay      |-> IF options.delay = << >> THEN <<DefaultDelay>> ELSE options.delay,
   mobileOnly |-> options.mobileOnly]

\* Mutant of shouldShowDrawer: config.mobileOnly is not consulted.
shouldShowDrawer_IgnoresMobileOnly(config, s, m) ==
  IF isStandalone(s) THEN FALSE ELSE TRUE

\* WaheimSDK.shouldShowDrawer(config), read against the signals s and the
\* user agent m.
shouldShowDrawer(config, s, m) ==
  IF isStandalone(s) THEN FALSE
  ELSE IF Truthy(config.mobileOnly) /\ ~m THEN FALSE
  ELSE TRUE

(* ------------------------------ Drawer -------------------------------- *)

\* Mutant of open: the isOpen half of the guard is missing.
open_NoOpenGuard(el) ==
  IF el = 0
  THEN UNCHANGED <<isOpen, openTimers, bodyOverflow>>
  ELSE /\ isOpen' = TRUE
       /\ openTimers' = openTimers + 1
       /\ bodyOverflow' = "hidden"

\* utils.getThemeColors: every colour of the palette is chosen by
\* utils.isDarkMode() alone, so a palette is recorded by its name.
getThemeColors(isDark) == IF isDark THEN "dark" ELSE "light"

\* No palette yet / no such node.
NoColors == "none"

\* Drawer.updateTheme, run by a theme listener (Drawer.element is set).
updateTheme ==
  LET colors == getThemeColors(dark')
  IN  /\ IF overlay # 0
         THEN overlayStyle' = [overlayStyle EXCEPT ![overlay] = colors]
         ELSE UNCHANGED overlayStyle
      /\ sheetStyle' = [sheetStyle EXCEPT ![element] = colors]

\* Mutant of open: the drawer is never shown.
open_Never(el) == UNCHANGED <<isOpen, openTimers, bodyOverflow>>

\* Drawer.open, run when Drawer.element holds el.
open(el) ==
  IF isOpen \/ el = 0
  THEN UNCHANGED <<isOpen, openTimers, bodyOverflow>>
  ELSE /\ isOpen' = TRUE
       /\ openTimers' = openTimers + 1
       /\ bodyOverflow' = "hidden"

\* Mutant of close: the isOpen half of the guard is missing.
close_NoOpenGuard ==
  IF element = 0
  THEN UNCHANGED <<isOpen, bodyOverflow, themeListener, mqlListeners, closeTimers, closing>>
  ELSE /\ isOpen' = FALSE
       /\ bodyOverflow' = ""
       /\ IF themeListener # 0
          THEN /\ mqlListeners' = mqlListeners \ {themeListener}
               /\ themeListener' = 0
          ELSE UNCHANGED <<themeListener, mqlListeners>>
       /\ closeTimers' = closeTimers + 1
       /\ closing' = Append(closing, element)

\* Mutant of close: the page scroll is not restored.
close_KeepsScrollLock ==
  IF ~isOpen \/ element = 0
  THEN UNCHANGED <<isOpen, bodyOverflow, themeListener, mqlListeners, closeTimers, closing>>
  ELSE /\ isOpen' = FALSE
       /\ UNCHANGED bodyOverflow
       /\ IF themeListener # 0
          THEN /\ mqlListeners' = mqlListeners \ {themeListener}
               /\ themeListener' = 0
          ELSE UNCHANGED <<themeListener, mqlListeners>>
       /\ closeTimers' = closeTimers + 1
       /\ closing' = Append(closing, element)

\* Drawer.close.
close ==
  IF ~isOpen \/ element = 0
  THEN UNCHANGED <<isOpen, bodyOverflow, themeListener, mqlListeners, closeTimers, closing>>
  ELSE /\ isOpen' = FALSE
       /\ bodyOverflow' = ""
       /\ IF themeListener # 0
          THEN /\ mqlListeners' = mqlListeners \ {themeListener}
               /\ themeListener' = 0
          ELSE UNCHANGED <<themeListener, mqlListeners>>
       /\ closeTimers' = closeTimers + 1
       /\ closing' = Append(closing, element)

\* Drawer.create from the DOM insertion on (the awaits are behind it): the
\* markup with the fresh ids is appended to the body, the references are
\* stored and the theme listener is added.
createInsert(id) ==
  /\ sheets' = sheets \cup {id}
  /\ overlays' = overlays \cup {id}
  /\ element' = id
  /\ overlay' = id
  /\ themeListener' = id
  /\ mqlListeners' = mqlListeners \cup {id}
  /\ overlayStyle' = [overlayStyle EXCEPT ![id] = createColors[id]]
  /\ sheetStyle' = [sheetStyle EXCEPT ![id] = createColors[id]]

\* The callback close() leaves behind, run 300 ms later.
closeTeardown ==
  /\ IF element # 0
     THEN /\ sheets' = sheets \ {element} /\ element' = 0
          /\ sheetStyle' = [sheetStyle EXCEPT ![element] = NoColors]
     ELSE UNCHANGED <<sheets, element, sheetStyle>>
  /\ IF overlay # 0
     THEN /\ overlays' = overlays \ {overlay} /\ overlay' = 0
          /\ overlayStyle' = [overlayStyle EXCEPT ![overlay] = NoColors]
     ELSE UNCHANGED <<overlays, overlay, overlayStyle>>

(* ---------------------------- SDK facade ------------------------------ *)

Delays == DelayValues \cup {DefaultDelay}

PendingShowTimers == LET Sum[D \in SUBSET Delays] ==
                           IF D = {} THEN 0
                           ELSE LET d == CHOOSE x \in D : TRUE
                                IN  showTimers[d] + Sum[D \ {d}]
                     IN  Sum[Delays]

\* Drawer.create runs started so far; the next one gets the next id.
Started == {i \in Ids : createPc[i] # "idle"}
nextId == Cardinality(Started) + 1

\* The branch init takes for these options.
initBranch(options) ==
  LET config == MergeConfig(options)
  IN  IF isAlreadyInstalled(sig) THEN "installed"
      ELSE IF Truthy(config.autoShow) /\ shouldShowDrawer(config, sig, mobile)
           THEN "scheduled"
           ELSE "notScheduled"

\* Mutant of init: the early return for an installed app is missing.
init_NoInstalledCheck(options) ==
  LET config == MergeConfig(options)
  IN  /\ IF Truthy(config.autoShow) /\ shouldShowDrawer(config, sig, mobile)
         THEN showTimers' = [showTimers EXCEPT ![config.delay[1]] = @ + 1]
         ELSE UNCHANGED showTimers
      /\ bipListeners' = bipListeners + 1

\* Mutant of init: the timer is set without looking at config.autoShow.
init_IgnoresAutoShow(options) ==
  LET config == MergeConfig(options)
  IN  IF isAlreadyInstalled(sig)
      THEN UNCHANGED <<showTimers, bipListeners>>
      ELSE /\ IF shouldShowDrawer(config, sig, mobile)
              THEN showTimers' = [showTimers EXCEPT ![config.delay[1]] = @ + 1]
              ELSE UNCHANGED showTimers
           /\ bipListeners' = bipListeners + 1

\* WaheimSDK.init(options).
init(options) ==
  LET config == MergeConfig(options)
  IN  IF isAlreadyInstalled(sig)
      THEN UNCHANGED <<showTimers, bipListeners>>
      ELSE /\ IF Truthy(config.autoShow) /\ shouldShowDrawer(config, sig, mobile)
              THEN showTimers' = [showTimers EXCEPT ![config.delay[1]] = @ + 1]
              ELSE UNCHANGED showTimers
           /\ bipListeners' = bipListeners + 1

\* init stays within the caps of the model.
initFits(options) ==
  \/ initBranch(options) = "installed"
  \/ /\ bipListeners < MaxPending
     /\ initBranch(options) = "scheduled" => PendingShowTimers < MaxPending

\* Mutant of showDrawer: the final standalone check is missing.
showDrawer_NoRecheck ==
  /\ createPc' = [createPc EXCEPT ![nextId] = "manifest"]
  /\ createColors' = [createColors EXCEPT ![nextId] = getThemeColors(dark)]

\* WaheimSDK.showDrawer up to its first await: the standalone re-check, then
\* Drawer.create starts (ids, colours) and waits for the manifest.
showDrawer ==
  IF isStandalone(sig)
  THEN UNCHANGED <<createPc, createColors>>
  ELSE /\ createPc' = [createPc EXCEPT ![nextId] = "manifest"]
       /\ createColors' = [createColors EXCEPT ![nextId] = getThemeColors(dark)]

showDrawerFits == isStandalone(sig) \/ nextId \in Ids

showDrawerBranch == IF isStandalone(sig) THEN "standalone" ELSE "started"

\* initializeSDK: the standalone check, then WaheimSDK.init().
initializeSDK ==
  /\ initializeSDKRuns' = initializeSDKRuns + 1
  /\ IF isStandalone(sig)
     THEN UNCHANGED <<showTimers, bipListeners>>
     ELSE init(NoOptions)

\* Mutant of safeInitialize: the flag is tested but never set.
safeInitialize_FlagNeverSet ==
  IF sdkInitialized
  THEN UNCHANGED <<sdkInitialized, initializeSDKRuns, showTimers, bipListeners>>
  ELSE /\ UNCHANGED sdkInitialized
       /\ initializeSDK

\* safeInitialize: the one-shot wrapper.
safeInitialize ==
  IF sdkInitialized
  THEN UNCHANGED <<sdkInitialized, initializeSDKRuns, showTimers, bipListeners>>
  ELSE /\ sdkInitialized' = TRUE
       /\ initializeSDK

safeInitializeBranch ==
  IF sdkInitialized THEN "alreadyInitialized"
  ELSE IF isStandalone(sig) THEN "standalone"
  ELSE initBranch(NoOptions)

safeInitializeFits == sdkInitialized \/ isStandalone(sig) \/ initFits(NoOptions)

Did(op, br, arg) == last' = [op |-> op, br |-> br, arg |-> arg]

drawerVars == <<createPc, sheets, overlays, isOpen, element, overlay, themeListener,
                mqlListeners, bodyOverflow, openTimers, closeTimers, closing>>

(* ------------------------------ steps --------------------------------- *)

\* The last statement of the script: register for DOMContentLoaded while
\* the document is loading, else initialise at once.
ScriptTail ==
  /\ ~scriptRun
  /\ scriptRun' = TRUE
  /\ \E loading \in BOOLEAN :
       IF loading
       THEN /\ listening' = TRUE
            /\ UNCHANGED <<sdkInitialized, initializeSDKRuns, showTimers, bipListeners>>
            /\ Did("script", "listening", NoOptions)
       ELSE /\ UNCHANGED listening
            /\ safeInitializeFits
            /\ Did("script", safeInitializeBranch, NoOptions)
            /\ safeInitialize
  /\ UNCHANGED <<sig, mobile, readySignals, drawerVars>>
  /\ UNCHANGED <<pageVars, themeVars>>

\* A document-ready signal reaches the registered safeInitialize.
DocumentReady ==
  /\ scriptRun /\ listening
  /\ readySignals < MaxReadySignals
  /\ readySignals' = readySignals + 1
  /\ safeInitializeFits
  /\ Did("DOMContentLoaded", safeInitializeBranch, NoOptions)
  /\ safeInitialize
  /\ UNCHANGED <<sig, mobile, scriptRun, listening, drawerVars>>
  /\ UNCHANGED <<pageVars, themeVars>>

\* Page code calls WaheimSDK.init(options).
CallInit(OptionSet) ==
  /\ scriptRun
  /\ \E options \in OptionSet :
       /\ initFits(options)
       /\ Did("init", initBranch(options), options)
       /\ init(options)
  /\ UNCHANGED <<sig, mobile, boot, drawerVars>>
  /\ UNCHANGED <<pageVars, themeVars>>

\* Page code calls WaheimSDK.shouldShowDrawer(config).
CallShouldShowDrawer(OptionSet) ==
  /\ scriptRun
  /\ \E config \in OptionSet :
       Did("shouldShowDrawer",
           IF shouldShowDrawer(config, sig, mobile) THEN "true" ELSE "false", config)
  /\ UNCHANGED <<sig, mobile, boot, widget>>
  /\ UNCHANGED <<pageVars, themeVars>>

\* A timer set by init fires: showDrawer(config).
ShowTimerFires ==
  /\ \E d \in Delays :
       /\ showTimers[d] > 0
       /\ showTimers' = [showTimers EXCEPT ![d] = @ - 1]
  /\ showDrawerFits
  /\ Did("showTimer", showDrawerBranch, NoOptions)
  /\ showDrawer
  /\ UNCHANGED <<sig, mobile, boot, bipListeners, sheets, overlays, isOpen, element,
                 overlay, themeListener, mqlListeners, bodyOverflow, openTimers,
                 closeTimers, closing>>
  /\ UNCHANGED <<pageVars, dark, sheetStyle, overlayStyle>>

\* Page code calls WaheimSDK.showDrawer() or forceShowDrawer(), which
\* forwards to showDrawer.
CallShowDrawer ==
  /\ scriptRun
  /\ showDrawerFits
  /\ \E op \in {"showDrawer", "forceShowDrawer"} : Did(op, showDrawerBranch, NoOptions)
  /\ showDrawer
  /\ UNCHANGED <<sig, mobile, boot, showTimers, bipListeners, sheets, overlays, isOpen,
                 element, overlay, themeListener, mqlListeners, bodyOverflow, openTimers,
                 closeTimers, closing>>
  /\ UNCHANGED <<pageVars, dark, sheetStyle, overlayStyle>>

\* Mutant of ManifestLoaded: the markup is inserted as soon as the manifest
\* is there, before the icon is resolved.
ManifestLoaded_InsertsEarly ==
  /\ \E i \in Ids :
       /\ createPc[i] = "manifest"
       /\ createPc' = [createPc EXCEPT ![i] = "icon"]
       /\ createInsert(i)
  /\ Did("manifestLoaded", "ok", NoOptions)
  /\ UNCHANGED <<sig, mobile, boot, showTimers, bipListeners, isOpen,
                 bodyOverflow, openTimers, closeTimers, closing>>
  /\ UNCHANGED <<pageVars, dark, createColors>>

\* The manifest fetch of Drawer.create settles (either way loadManifest
\* yields a manifest); create goes on to await utils.getAppIcon().
ManifestLoaded ==
  /\ \E i \in Ids :
       /\ createPc[i] = "manifest"
       /\ createPc' = [createPc EXCEPT ![i] = "icon"]
  /\ Did("manifestLoaded", "ok", NoOptions)
  /\ UNCHANGED <<sig, mobile, boot, showTimers, bipListeners, sheets, overlays, isOpen,
                 element, overlay, themeListener, mqlListeners, bodyOverflow, openTimers,
                 closeTimers, closing>>
  /\ UNCHANGED <<pageVars, themeVars>>

\* utils.getAppIcon settles: create inserts the drawer and returns, and
\* showDrawer goes on with this.drawer.open().
IconResolved ==
  /\ \E i \in Ids :
       /\ createPc[i] = "icon"
       /\ createPc' = [createPc EXCEPT ![i] = "done"]
       /\ createInsert(i)
       /\ ~isOpen => openTimers < MaxPending
       /\ Did("created", IF isOpen THEN "alreadyOpen" ELSE "opened", NoOptions)
       /\ open(i)
  /\ UNCHANGED <<sig, mobile, boot, showTimers, bipListeners, closeTimers, closing>>
  /\ UNCHANGED <<pageVars, dark, createColors>>

\* Page code calls WaheimSDK.drawer.open().
CallOpen ==
  /\ scriptRun
  /\ (~isOpen /\ element # 0) => openTimers < MaxPending
  /\ Did("open", IF isOpen THEN "alreadyOpen"
                 ELSE IF element = 0 THEN "notCreated" ELSE "opened", NoOptions)
  /\ open(element)
  /\ UNCHANGED <<sig, mobile, boot, showTimers, bipListeners, createPc, sheets, overlays,
                 element, overlay, themeListener, mqlListeners, closeTimers, closing>>
  /\ UNCHANGED <<pageVars, themeVars>>

\* Page code calls WaheimSDK.closeDrawer() (or drawer.close()).
CallCloseDrawer ==
  /\ scriptRun
  /\ (isOpen /\ element # 0) => closeTimers < MaxPending
  /\ Did("close", IF ~isOpen THEN "notOpen"
                  ELSE IF element = 0 THEN "noElement" ELSE "closed", NoOptions)
  /\ close
  /\ UNCHANGED <<sig, mobile, boot, showTimers, bipListeners, createPc, sheets, overlays,
                 element, overlay, openTimers>>
  /\ UNCHANGED <<pageVars, themeVars>>

\* The 10 ms timer of open() fires.  It only writes the sheet's transform;
\* with Drawer.element null by then the write throws inside the timer
\* callback and nothing else changes.
OpenTimerFires ==
  /\ openTimers > 0
  /\ openTimers' = openTimers - 1
  /\ Did("openTimer", "ok", NoOptions)
  /\ UNCHANGED <<sig, mobile, boot, showTimers, bipListeners, createPc, sheets, overlays,
                 isOpen, element, overlay, themeListener, mqlListeners, bodyOverflow,
                 closeTimers, closing>>
  /\ UNCHANGED <<pageVars, themeVars>>

\* The 300 ms timer of close() fires.
CloseTimerFires ==
  /\ closeTimers > 0
  /\ closeTimers' = closeTimers - 1
  /\ closing' = Tail(closing)
  /\ Did("closeTimer", IF element = 0 THEN "nothing" ELSE "removed", NoOptions)
  /\ closeTeardown
  /\ UNCHANGED <<sig, mobile, boot, showTimers, bipListeners, createPc, isOpen,
                 themeListener, mqlListeners, bodyOverflow, openTimers>>
  /\ UNCHANGED <<pageVars, dark, createColors>>

\* The platform changes one standalone signal (the page is installed,
\* enters or leaves fullscreen, ...).
SignalChanges(SignalSet) ==
  /\ \E k \in SignalSet : sig' = [sig EXCEPT ![k] = ~@]
  /\ Did("signal", "changed", NoOptions)
  /\ UNCHANGED <<mobile, boot, widget>>
  /\ UNCHANGED <<pageVars, themeVars>>

\* The platform's colour scheme changes: the media query dispatches
\* 'change' to the listeners attached to it.  Every listener is the same
\* closure over the Drawer object: if (this.element) this.updateTheme().
ThemeChanges ==
  /\ dark' = ~dark
  /\ IF mqlListeners # {} /\ element # 0
     THEN /\ updateTheme
          /\ Did("themeChange", "updated", NoOptions)
     ELSE /\ UNCHANGED <<sheetStyle, overlayStyle>>
          /\ Did("themeChange", IF mqlListeners = {} THEN "noListener" ELSE "noElement",
                 NoOptions)
  /\ UNCHANGED <<sdkVars, pageVars, createColors>>

(* ---------------- strings, as sequences of characters ----------------- *)

Min(a, b) == IF a <= b THEN a ELSE b

Digits == <<"0", "1", "2", "3", "4", "5", "6", "7", "8", "9">>

\* Number.prototype.toString, for a natural number.
RECURSIVE toString(_)
toString(n) ==
  IF n < 10 THEN <<Digits[n + 1]>>
  ELSE toString(n \div 10) \o <<Digits[(n % 10) + 1]>>

\* String.prototype.split with a one-character separator.
RECURSIVE split(_, _)
split(s, sep) ==
  IF \A i \in 1..Len(s) : s[i] # sep
  THEN <<s>>
  ELSE LET i == CHOOSE i \in 1..Len(s) : s[i] = sep /\ \A j \in 1..(i - 1) : s[j] # sep
       IN  <<SubSeq(s, 1, i - 1)>> \o split(SubSeq(s, i + 1, Len(s)), sep)

\* Array.prototype.includes.
includes(array, x) == \E k \in 1..Len(array) : array[k] = x

\* String.prototype.includes.
stringIncludes(s, sub) ==
  \E i \in 0..(Len(s) - Len(sub)) : SubSeq(s, i + 1, i + Len(sub)) = sub

\* String.prototype.substring(from, to), from <= to.
substring_WholeString(s, from, to) == s

substring(s, from, to) == SubSeq(s, Min(from, Len(s)) + 1, Min(to, Len(s)))

(* --------------------------- icon resolver ---------------------------- *)

\* getAppIcon: the default of its size parameter.
DefaultSize == 192

\* Icons an array of the manifest holds at most.
MaxIcons == 2

\* utils.createFallbackIcon: the inline SVG as a base64 data URI.
createFallbackIcon == "data:image/svg+xml;base64,PHN2ZyB3aWR0aD0iMTkyIj48L3N2Zz4="

\* The icon path of the default manifest when the page has no favicon link.
DefaultFaviconPath == "/favicon.png"

\* The sizes getAppIcon is called with.
IconSizes == {DefaultSize, 512}

\* utils.getFaviconFromHtml: the href of the first favicon link, "" for null.
Favicons == {"", "/apple-touch-icon.png"}

\* How a HEAD probe settles: response.ok, a response that is not ok, or a
\* rejected fetch.
ProbeOutcomes == {"ok", "notOk", "throws"}

\* The "sizes" member of an icon entry as parsed from JSON.
sizesUndefined == [t |-> "undefined", s |-> << >>, n |-> 0]
sizesString(s) == [t |-> "string", s |-> s, n |-> 0]
sizesNumber(n) == [t |-> "number", s |-> << >>, n |-> n]

\* "{n}x{n}".
Square(n) == toString(n) \o <<"x">> \o toString(n)

\* A JSON null in the icons array.
NullEntry == [isNull |-> TRUE, src |-> "", sizes |-> sizesUndefined]

\* Entries of a manifest's icons array; src "" stands for a missing or
\* empty src (both falsy).
IconEntries ==
  { [isNull |-> FALSE, src |-> "/icon-192.png", sizes |-> sizesString(Square(192))],
    [isNull |-> FALSE, src |-> "/icon-512.png", sizes |-> sizesString(Square(512))],
    [isNull |-> FALSE, src |-> "/icon-wide.png",
     sizes |-> sizesString(toString(1920) \o <<"x">> \o toString(1080))],
    [isNull |-> FALSE, src |-> "/icon-multi.png",
     sizes |-> sizesString(Square(512) \o <<" ">> \o Square(192))],
    [isNull |-> FALSE, src |-> "", sizes |-> sizesString(Square(192))],
    [isNull |-> FALSE, src |-> "/icon-any.png", sizes |-> sizesUndefined],
    [isNull |-> FALSE, src |-> "/icon-num.png", sizes |-> sizesNumber(192)],
    NullEntry }

IconLists == UNION {[1..n -> IconEntries] : n \in 0..MaxIcons}

\* A manifest that parsed to JSON null.
NullManifest == [isNull |-> TRUE, short_name |-> "", name |-> "", icons |-> << >>]

\* What response.json() can yield: null, or an object whose icons member
\* is absent (<<>>) or an array (<<array>>).
ManifestValues ==
  {NullManifest} \cup
  {[isNull |-> FALSE, short_name |-> "", name |-> "App", icons |-> i] : i \in Opt(IconLists)}

\* How the manifest fetch settles.
Responses ==
  {[kind |-> k, body |-> NullManifest] : k \in {"networkError", "non2xx", "parseError"}}
    \cup {[kind |-> "ok", body |-> m] : m \in ManifestValues}

NoResponse == [kind |-> "none", body |-> NullManifest]

\* A promise of loadManifest.
Fulfilled(m) == [rejected |-> FALSE, value |-> m]

\* The default manifest of loadManifest's catch block.
defaultManifest(htmlFavicon) ==
  [isNull |-> FALSE, short_name |-> "ReactPWA", name |-> "React PWA",
   icons |-> << << [isNull |-> FALSE,
                    src |-> IF htmlFavicon # "" THEN htmlFavicon ELSE DefaultFaviconPath,
                    sizes |-> sizesString(<<"1", "9", "2", "x", "1", "9", "2">>)] >> >>]

\* Mutant of loadManifest: a body that is not JSON is thrown to the caller.
loadManifest_ThrowsOnParseError(r, htmlFavicon) ==
  IF r.kind = "ok" THEN Fulfilled(r.body)
  ELSE IF r.kind = "parseError" THEN [rejected |-> TRUE, value |-> NullManifest]
  ELSE Fulfilled(defaultManifest(htmlFavicon))

\* Mutant of loadManifest: an HTTP error status is thrown to the caller.
loadManifest_ThrowsOnHttpError(r, htmlFavicon) ==
  IF r.kind = "ok" THEN Fulfilled(r.body)
  ELSE IF r.kind = "non2xx" THEN [rejected |-> TRUE, value |-> NullManifest]
  ELSE Fulfilled(defaultManifest(htmlFavicon))

\* utils.loadManifest, given how the fetch settles.
loadManifest(r, htmlFavicon) ==
  IF r.kind = "ok" THEN Fulfilled(r.body)
  ELSE Fulfilled(defaultManifest(htmlFavicon))

\* The callback of the first find: i.sizes && i.sizes.split(' ').includes(`${size}x${size}`).
exactTest(i, size) ==
  IF i.isNull THEN "throws"
  ELSE IF i.sizes.t = "undefined" THEN "false"
  ELSE IF i.sizes.t = "number" THEN (IF i.sizes.n = 0 THEN "false" ELSE "throws")
  ELSE IF i.sizes.s = << >> THEN "false"
  ELSE IF includes(split(i.sizes.s, " "), Square(size)) THEN "true" ELSE "false"

\* The callback of the second find: i.sizes && i.sizes.includes(size.toString()).
substringTest(i, size) ==
  IF i.isNull THEN "throws"
  ELSE IF i.sizes.t = "undefined" THEN "false"
  ELSE IF i.sizes.t = "number" THEN (IF i.sizes.n = 0 THEN "false" ELSE "throws")
  ELSE IF i.sizes.s = << >> THEN "false"
  ELSE IF stringIncludes(i.sizes.s, toString(size)) THEN "true" ELSE "false"

\* Array.prototype.find from index k on, with a callback that may throw:
\* idx is the index found, 0 for undefined.
RECURSIVE find(_, _, _, _)
find(icons, size, exact, k) ==
  IF k > Len(icons) THEN [threw |-> FALSE, idx |-> 0]
  ELSE LET t == IF exact THEN exactTest(icons[k], size) ELSE substringTest(icons[k], size)
       IN  IF t = "throws" THEN [threw |-> TRUE, idx |-> 0]
           ELSE IF t = "true" THEN [threw |-> FALSE, idx |-> k]
           ELSE find(icons, size, exact, k + 1)

\* getAppIcon's choice: exact match, else substring match, else icons[0].
selectIcon(icons, size) ==
  LET e == find(icons, size, TRUE, 1)
  IN  IF e.threw \/ e.idx # 0 THEN e
      ELSE LET s == find(icons, size, FALSE, 1)
           IN  IF s.threw \/ s.idx # 0 THEN s
               ELSE [threw |-> FALSE, idx |-> 1]

\* Mutant of probeWorthy: src is not looked at.
probeWorthy_AnySrc(icon) == TRUE

\* if (icon && icon.src).
probeWorthy(icon) == ~icon.isNull /\ icon.src # ""

\* Mutant of probePassed: the probed URL is returned whatever the probe said.
probePassed_Always(outcome) == TRUE

\* if (response.ok) inside the try around a probe.
probePassed(outcome) == outcome = "ok"

Probe(step, url) == [step |-> step, url |-> url, outcome |-> "pending"]

\* The pending probe (the last one issued) settles.
settle(ps, outcome) == [ps EXCEPT ![Len(ps)].outcome = outcome]

\* getAppIcon after the manifest icon: the HTML favicon, else the SVG.
tryFavicon(ps) ==
  IF favicon # ""
  THEN /\ iconPc' = "probeFavicon"
       /\ probes' = Append(ps, Probe("favicon", favicon))
       /\ UNCHANGED appIcon
  ELSE /\ iconPc' = "done"
       /\ probes' = ps
       /\ appIcon' = createFallbackIcon

\* getAppIcon's outer catch.
lastResort ==
  /\ iconPc' = "done"
  /\ appIcon' = IF favicon # "" THEN favicon ELSE createFallbackIcon
  /\ UNCHANGED probes

\* getAppIcon from the settled loadManifest up to its next await.
afterManifest(m) ==
  IF m.rejected THEN lastResort
  ELSE IF ~m.value.isNull /\ m.value.icons # << >> /\ Len(m.value.icons[1]) > 0
  THEN LET icons == m.value.icons[1]
           sel   == selectIcon(icons, iconSize)
       IN  IF sel.threw THEN lastResort
           ELSE IF probeWorthy(icons[sel.idx])
           THEN /\ iconPc' = "probeIcon"
                /\ probes' = Append(probes, Probe("icon", icons[sel.idx].src))
                /\ UNCHANGED appIcon
           ELSE tryFavicon(probes)
  ELSE tryFavicon(probes)

\* Code calls utils.getAppIcon(size) on a page whose favicon link is f.
CallGetAppIcon ==
  /\ iconPc \in {"idle", "done"}
  /\ \E size \in IconSizes, f \in Favicons :
       /\ iconSize' = size
       /\ favicon' = f
  /\ iconPc' = "manifest"
  /\ response' = NoResponse
  /\ manifest' = Fulfilled(NullManifest)
  /\ probes' = << >>
  /\ appIcon' = ""
  /\ Did("getAppIcon", "called", NoOptions)
  /\ UNCHANGED <<sdkVars, translateVars, historyVars, promptVars, createVars, themeVars, es5Vars, searchVars, autoPlayVars>>

\* A Drawer.create run is waiting for its utils.getAppIcon().
creating == \E i \in Ids : createPc[i] = "icon"

\* The manifest fetch settles: loadManifest returns and getAppIcon runs on.
ManifestFetchSettles(ResponseSet) ==
  /\ iconPc = "manifest"
  /\ \E r \in ResponseSet :
       /\ response' = r
       /\ manifest' = loadManifest(r, favicon)
       /\ afterManifest(loadManifest(r, favicon))
       /\ Did("loadManifest", r.kind, NoOptions)
  /\ manifestLoads' = IF creating THEN manifestLoads + 1 ELSE manifestLoads
  /\ UNCHANGED <<favicon, iconSize, createManifest, appName, markupIcon>>
  /\ UNCHANGED <<sdkVars, translateVars, historyVars, promptVars, themeVars, es5Vars, searchVars, autoPlayVars>>

\* The HEAD probe of the manifest icon settles.
IconProbeSettles ==
  /\ iconPc = "probeIcon"
  /\ \E o \in ProbeOutcomes :
       /\ IF probePassed(o)
          THEN /\ iconPc' = "done"
               /\ probes' = settle(probes, o)
               /\ appIcon' = probes[Len(probes)].url
          ELSE tryFavicon(settle(probes, o))
       /\ Did("iconProbe", o, NoOptions)
  /\ UNCHANGED <<favicon, iconSize, response, manifest>>
  /\ UNCHANGED <<sdkVars, translateVars, historyVars, promptVars, createVars, themeVars, es5Vars, searchVars, autoPlayVars>>

\* The HEAD probe of the HTML favicon settles.
FaviconProbeSettles ==
  /\ iconPc = "probeFavicon"
  /\ \E o \in ProbeOutcomes :
       /\ iconPc' = "done"
       /\ probes' = settle(probes, o)
       /\ appIcon' = IF probePassed(o) THEN probes[Len(probes)].url ELSE createFallbackIcon
       /\ Did("faviconProbe", o, NoOptions)
  /\ UNCHANGED <<favicon, iconSize, response, manifest>>
  /\ UNCHANGED <<sdkVars, translateVars, historyVars, promptVars, createVars, themeVars, es5Vars, searchVars, autoPlayVars>>

(* ----------------------------- translation ---------------------------- *)

LangEn == <<"e", "n">>
LangIt == <<"i", "t">>
LangId == <<"i", "d">>

\* The keys of every locale of the translation table.
Keys == {"clickOnBrowser", "shareIcon", "scrollAndSelect", "addToHomeScreen",
         "openApp", "fromHomeScreen"}

\* Three of the 41 locales of the translation table of translateText (each
\* locale of the table has all six keys).
translations ==
  (LangEn :> [clickOnBrowser  |-> "Click",
              shareIcon       |-> "on menu of browser",
              scrollAndSelect |-> "Scroll and select",
              addToHomeScreen |-> "Add to Home Screen",
              openApp         |-> "Open app",
              fromHomeScreen  |-> "from your home screen"]) @@
  (LangIt :> [clickOnBrowser  |-> "Clicca",
              shareIcon       |-> "sul menu del browser",
              scrollAndSelect |-> "Scorri e seleziona",
              addToHomeScreen |-> "Aggiungi alla schermata principale",
              openApp         |-> "Apri app",
              fromHomeScreen  |-> "dalla tua schermata principale"]) @@
  (LangId :> [clickOnBrowser  |-> "Klik",
              shareIcon       |-> "pada menu browser",
              scrollAndSelect |-> "Gulir dan pilih",
              addToHomeScreen |-> "Tambahkan ke Layar Utama",
              openApp         |-> "Buka aplikasi",
              fromHomeScreen  |-> "dari layar utama Anda"])

\* Values of navigator.language / navigator.userLanguage: undefined, "",
\* "i", "en", "en-US", "it", "it-IT", "IT", "id", "xx".
LanguageTags ==
  {<< >>, <<"i">>, LangEn, <<"e", "n", "-", "U", "S">>, LangIt,
   <<"i", "t", "-", "I", "T">>, <<"I", "T">>, LangId, <<"x", "x">>}

UserLanguageTags == {LangIt, <<"x", "x">>}

\* Keys translateText is called with.
CallKeys == Keys \cup {"unknownKey"}

\* Fallback texts translateText is called with: omitted, "", or a text.
FallbackTexts == Opt({"", "Click", "Tap"})

\* translations[langCode][key]: <<>> for undefined.
lookup(langCode, key) ==
  IF langCode \in DOMAIN translations /\ key \in DOMAIN translations[langCode]
  THEN <<translations[langCode][key]>>
  ELSE << >>

\* A text, or undefined, used as a condition.
TruthyText(o) == o # << >> /\ o[1] # ""

\* A language tag, or undefined, used as a condition.
TruthyTag(o) == o # << >> /\ o[1] # << >>

\* navigator.language || navigator.userLanguage || 'en'.
deviceLang(lang, userLang) ==
  IF TruthyTag(lang) THEN lang[1]
  ELSE IF TruthyTag(userLang) THEN userLang[1]
  ELSE LangEn

\* Mutant of translateText: the English text is preferred to the fallback.
translateText_EnglishBeforeFallback(key, fallbackText, lang, userLang) ==
  LET langCode == substring(deviceLang(lang, userLang), 0, 2)
  IN  IF lookup(langCode, key) # << >> THEN lookup(langCode, key)
      ELSE IF lookup(LangEn, key) # << >> THEN lookup(LangEn, key)
      ELSE fallbackText

\* utils.translateText(key, fallbackText).
translateText(key, fallbackText, lang, userLang) ==
  LET langCode == substring(deviceLang(lang, userLang), 0, 2)
  IN  IF lookup(langCode, key) # << >> THEN lookup(langCode, key)
      ELSE IF TruthyText(fallbackText) THEN fallbackText
      ELSE IF lookup(LangEn, key) # << >> THEN lookup(LangEn, key)
      ELSE fallbackText

\* Code calls utils.translateText(key, fallbackText) in a browser whose
\* navigator reports these languages.
CallTranslateText ==
  /\ \E lang \in Opt(LanguageTags), userLang \in Opt(UserLanguageTags),
        key \in CallKeys, fallbackText \in FallbackTexts :
       /\ language' = lang
       /\ userLanguage' = userLang
       /\ trKey' = key
       /\ trFallback' = fallbackText
       /\ trResult' = translateText(key, fallbackText, lang, userLang)
  /\ Did("translateText", "returned", NoOptions)
  /\ UNCHANGED <<sdkVars, iconVars, historyVars, promptVars, createVars, themeVars, es5Vars, searchVars, autoPlayVars>>

(* ---------------------------- watch history --------------------------- *)

\* saveWatchedVideo: the length the stored list is cut to.
HistoryCap == 10

\* Distinct videos saved.
MaxVideos == 11

\* Saves of a video that was saved before.
MaxResaves == 1

\* Titles a video comes with (the thumbnail is carried the same way).
Titles == {"a", "b"}

VideoIds == 1..MaxVideos

\* What localStorage holds under STORAGE_KEY: nothing, the empty string, a
\* text that is not JSON, or the JSON text of a list.
NoItem == [t |-> "null", v |-> << >>]
StoredTexts == {[t |-> "empty", v |-> << >>], [t |-> "garbage", v |-> << >>]}

\* JSON.stringify of a list of videos.
stringify(list) == [t |-> "json", v |-> list]

\* getWatchedVideos().
getWatchedVideos ==
  IF stored.t = "json" THEN stored.v ELSE << >>

\* watched.filter(v => v.videoId !== videoId).
filter(watched, videoId) ==
  LET Keep(v) == v.videoId # videoId IN SelectSeq(watched, Keep)

\* Array.prototype.slice(from, to).
slice(list, from, to) == SubSeq(list, Min(from, Len(list)) + 1, Min(to, Len(list)))

\* Mutant of saveWatchedVideo: the list is not filtered.
saveWatchedVideo_NoFilter(video) ==
  LET watched == getWatchedVideos
      updated == slice(<<video>> \o watched, 0, HistoryCap)
  IN  stored' = stringify(updated)

\* saveWatchedVideo(video).
saveWatchedVideo(video) ==
  LET watched  == getWatchedVideos
      filtered == filter(watched, video.videoId)
      updated  == slice(<<video>> \o filtered, 0, HistoryCap)
  IN  stored' = stringify(updated)

\* The videoIds saved so far.
SavedIds == {saves[k].videoId : k \in 1..Len(saves)}

\* Saves so far of a video that had been saved before.
Resaves == Len(saves) - Cardinality(SavedIds)

\* The user picks a video: saveWatchedVideo(video).  A video never saved
\* before takes the next id.
CallSaveWatchedVideo ==
  /\ \E video \in [videoId : VideoIds, title : Titles] :
       /\ \/ /\ video.videoId = Cardinality(SavedIds) + 1
             /\ video.title = "a"
          \/ /\ video.videoId \in SavedIds
             /\ Resaves < MaxResaves
       /\ saves' = Append(saves, video)
       /\ Did("saveWatchedVideo",
              IF \E k \in 1..Len(getWatchedVideos) : getWatchedVideos[k].videoId = video.videoId
              THEN "moved" ELSE "added", NoOptions)
       /\ saveWatchedVideo(video)
  /\ UNCHANGED <<sdkVars, iconVars, translateVars, promptVars, createVars, themeVars, es5Vars, searchVars, autoPlayVars>>

\* The stored item is removed or overwritten with a text that is not a
\* list (site data cleared, storage written by other code).
StorageReset ==
  /\ \E s \in {NoItem} \cup StoredTexts :
       /\ s # stored
       /\ stored' = s
  /\ saves' = << >>
  /\ Did("storageReset", "reset", NoOptions)
  /\ UNCHANGED <<sdkVars, iconVars, translateVars, promptVars, createVars, themeVars, es5Vars, searchVars, autoPlayVars>>

(* --------------------------- install prompt --------------------------- *)

\* beforeinstallprompt events the browser delivers.
MaxEvents == 2

\* Mutant of onBeforeInstallPrompt: the event is stored, its default
\* behaviour is left alone.
onBeforeInstallPrompt_NoPreventDefault(e) ==
  /\ UNCHANGED defaultPrevented
  /\ deferredPrompt' = e

\* The listener init registers: e.preventDefault(); window.deferredPrompt = e.
onBeforeInstallPrompt(e) ==
  /\ defaultPrevented' = defaultPrevented \cup {e}
  /\ deferredPrompt' = e

\* The browser delivers a beforeinstallprompt event to the window; every
\* listener registered by init runs on it.
BeforeInstallPrompt ==
  /\ bipEvents < MaxEvents
  /\ bipEvents' = bipEvents + 1
  /\ IF bipListeners > 0
     THEN /\ onBeforeInstallPrompt(bipEvents + 1)
          /\ Did("beforeinstallprompt", "intercepted", NoOptions)
     ELSE /\ UNCHANGED <<deferredPrompt, defaultPrevented>>
          /\ Did("beforeinstallprompt", "unheard", NoOptions)
  /\ UNCHANGED <<sdkVars, iconVars, translateVars, historyVars, createVars, themeVars, es5Vars, searchVars, autoPlayVars>>

(* ------------------------ Drawer.create in detail --------------------- *)

\* How the manifest fetch of create's own loadManifest() settles; create
\* reads only the names of that manifest.
NameResponses == {r \in Responses : r.body.icons = << >>}

\* How the manifest fetch of the getAppIcon() of a create settles: every
\* failure, and a 2xx with null, without icons, or with one icon that is
\* fine, has no src, or is malformed.
CreateResponses ==
  {r \in Responses :
     r.body.icons # << >> =>
       r.body.icons[1] \in
         { << [isNull |-> FALSE, src |-> "/icon-192.png", sizes |-> sizesString(Square(192))] >>,
           << [isNull |-> FALSE, src |-> "", sizes |-> sizesString(Square(192))] >>,
           << NullEntry >> }}

\* const appName = manifest ? manifest.short_name || manifest.name : 'This App'.
appNameOf(m) ==
  IF m.isNull THEN "This App"
  ELSE IF m.short_name # "" THEN m.short_name ELSE m.name

\* The manifest fetch of create's own loadManifest() settles on a page whose
\* favicon link is f; create goes on to call utils.getAppIcon(), which
\* starts its own loadManifest().  A rejected loadManifest would reject
\* create and showDrawer.
CreateManifestSettles ==
  /\ iconPc = "idle"
  /\ \E i \in Ids, r \in NameResponses, f \in Favicons :
       /\ createPc[i] = "manifest"
       /\ Did("createManifest", r.kind, NoOptions)
       /\ IF loadManifest(r, f).rejected
          THEN /\ createPc' = [createPc EXCEPT ![i] = "rejected"]
               /\ UNCHANGED <<iconVars, createVars>>
          ELSE /\ createPc' = [createPc EXCEPT ![i] = "icon"]
               /\ createManifest' = loadManifest(r, f)
               /\ manifestLoads' = 1
               /\ favicon' = f
               /\ iconSize' = DefaultSize
               /\ iconPc' = "manifest"
               /\ response' = NoResponse
               /\ manifest' = Fulfilled(NullManifest)
               /\ probes' = << >>
               /\ appIcon' = ""
               /\ UNCHANGED <<appName, markupIcon>>
  /\ UNCHANGED <<sig, mobile, boot, showTimers, bipListeners, sheets, overlays, isOpen,
                 element, overlay, themeListener, mqlListeners, bodyOverflow, openTimers,
                 closeTimers, closing>>
  /\ UNCHANGED <<translateVars, historyVars, promptVars, themeVars, es5Vars, searchVars, autoPlayVars>>

\* utils.getAppIcon() has returned: create interpolates the name and the
\* icon into the markup, inserts it and returns; showDrawer goes on with
\* this.drawer.open().  The locals of the finished run are dropped.
CreateCompletes ==
  /\ iconPc = "done"
  /\ \E i \in Ids :
       /\ createPc[i] = "icon"
       /\ createPc' = [createPc EXCEPT ![i] = "done"]
       /\ createInsert(i)
       /\ ~isOpen => openTimers < MaxPending
       /\ Did("created", IF isOpen THEN "alreadyOpen" ELSE "opened", NoOptions)
       /\ open(i)
  /\ appName' = appNameOf(createManifest.value)
  /\ markupIcon' = appIcon
  /\ createManifest' = Fulfilled(NullManifest)
  /\ manifestLoads' = 0
  /\ favicon' = ""
  /\ iconSize' = DefaultSize
  /\ iconPc' = "idle"
  /\ response' = NoResponse
  /\ manifest' = Fulfilled(NullManifest)
  /\ probes' = << >>
  /\ appIcon' = ""
  /\ UNCHANGED <<sig, mobile, boot, showTimers, bipListeners, closeTimers, closing>>
  /\ UNCHANGED <<translateVars, historyVars, promptVars, dark, createColors, es5Vars, searchVars, autoPlayVars>>

(* ------------------------- the ES5 build ------------------------------ *)

\* The events an XMLHttpRequest dispatches to its handlers, by how the
\* request ends.  A network error moves the request to readyState 4 with
\* status 0 and then fires 'error'.
ReadyStateChange(readyState, status, valid) ==
  [type |-> "readystatechange", readyState |-> readyState, status |-> status,
   valid |-> valid]

ErrorEvent == [type |-> "error", readyState |-> 4, status |-> 0, valid |-> FALSE]

xhrEvents(r) ==
  IF r.kind = "networkError"
  THEN << ReadyStateChange(4, 0, FALSE), ErrorEvent >>
  ELSE << ReadyStateChange(2, IF r.kind = "non2xx" THEN 404 ELSE 200, FALSE),
          ReadyStateChange(3, IF r.kind = "non2xx" THEN 404 ELSE 200, FALSE),
          ReadyStateChange(4, IF r.kind = "non2xx" THEN 404 ELSE 200, r.kind = "ok") >>

\* xhr.onreadystatechange of loadManifest: the manifests it passes to
\* callback, in order.
onreadystatechange(e, body, htmlFavicon) ==
  IF e.readyState = 4
  THEN IF e.status = 200
       THEN IF e.valid THEN << body >> ELSE << defaultManifest(htmlFavicon) >>
       ELSE << defaultManifest(htmlFavicon) >>
  ELSE << >>

\* xhr.onerror of loadManifest.
onerror(htmlFavicon) == << defaultManifest(htmlFavicon) >>

\* utils.loadManifest(callback) of the ES5 build: the manifests callback
\* is invoked with, in order, over the events of the request.
loadManifestES5(r, htmlFavicon) ==
  LET events == xhrEvents(r)
      calls[k \in 0..Len(events)] ==
        IF k = 0 THEN << >>
        ELSE calls[k - 1] \o
             (IF events[k].type = "error" THEN onerror(htmlFavicon)
              ELSE onreadystatechange(events[k], r.body, htmlFavicon))
  IN  calls[Len(events)]

\* The callback inside utils.getAppIcon of the ES5 build: the first icon's
\* src, else the HTML favicon, else the inline SVG.
getAppIconES5(m, htmlFavicon) ==
  IF ~m.isNull /\ m.icons # << >> /\ Len(m.icons[1]) > 0
       /\ ~m.icons[1][1].isNull /\ m.icons[1][1].src # ""
  THEN m.icons[1][1].src
  ELSE IF htmlFavicon # "" THEN htmlFavicon ELSE createFallbackIcon

\* Drawer.create(options, callback): utils.loadManifest is called.
CallCreateES5 ==
  /\ es5Pc = "idle"
  /\ es5Pc' = "started"
  /\ \E f \in Favicons : es5Favicon' = f
  /\ nameLoads' = 1
  /\ Did("createES5", "started", NoOptions)
  /\ UNCHANGED <<iconLoads, callbackCalls, es5Markup>>
  /\ UNCHANGED <<sdkVars, iconVars, translateVars, historyVars, promptVars, createVars,
                 themeVars, searchVars, autoPlayVars>>

\* The request of create's loadManifest ends: each invocation of its
\* callback calls utils.getAppIcon, which starts a loadManifest of its own.
NameLoadSettles ==
  /\ nameLoads > 0
  /\ \E r \in NameResponses :
       LET manifests == loadManifestES5(r, es5Favicon)
       IN  /\ iconLoads' = iconLoads \o manifests
           /\ callbackCalls' = Len(manifests)
           /\ Did("nameLoadES5", r.kind, NoOptions)
  /\ nameLoads' = nameLoads - 1
  /\ UNCHANGED <<es5Pc, es5Favicon, es5Markup>>
  /\ UNCHANGED <<sdkVars, iconVars, translateVars, historyVars, promptVars, createVars,
                 themeVars, searchVars, autoPlayVars>>

\* The request of a getAppIcon call ends: each invocation of its callback
\* hands an icon to create's inner function, which builds the markup,
\* inserts it and calls create's callback.
IconLoadSettles ==
  /\ iconLoads # << >>
  /\ \E k \in 1..Len(iconLoads), r \in CreateResponses :
       LET manifests == loadManifestES5(r, es5Favicon)
           manifest1 == iconLoads[k]
       IN  /\ es5Markup' = es5Markup \o
                 [j \in 1..Len(manifests) |->
                    [appName |-> appNameOf(manifest1),
                     appIcon |-> getAppIconES5(manifests[j], es5Favicon)]]
           /\ iconLoads' = [j \in 1..(Len(iconLoads) - 1) |->
                              IF j < k THEN iconLoads[j] ELSE iconLoads[j + 1]]
           /\ callbackCalls' = Len(manifests)
           /\ Did("iconLoadES5", r.kind, NoOptions)
  /\ UNCHANGED <<es5Pc, es5Favicon, nameLoads>>
  /\ UNCHANGED <<sdkVars, iconVars, translateVars, historyVars, promptVars, createVars,
                 themeVars, searchVars, autoPlayVars>>

(* --------------------- search and related videos ---------------------- *)

\* Ids a page mentions, and matches of one pattern in it.
MaxMatches == 6

\* Pages of related videos asked for (0-based).
MaxPage == 1

\* searchYouTube: .slice(0, 10).
SearchCap == 10

\* fetchRelatedVideos: six ids per page.
RelatedPageSize == 6

\* The two patterns the pages are matched with; a match is the pattern's
\* prefix followed by an 11-character id (ids are numbered here).
VideoIdPrefix == "\"videoId\":\""
WatchPrefix == "watch?v="

PageIds == 1..MaxMatches

Match(prefix, id) == [prefix |-> prefix, id |-> id]

\* The ids one pattern matches in a page, in document order: a run of
\* consecutive ids that starts at the first or the second id, or one id
\* matched twice.
Runs == {[k \in 1..n |-> from + k - 1] : n \in 0..MaxMatches, from \in 1..2}
IdLists ==
  {r \in Runs : r = << >> \/ r[Len(r)] <= MaxMatches}
    \cup {<<id, id>> : id \in 1..2}

\* The pages the proxy can serve, and no page served yet.
Pages == {[served |-> TRUE, p1 |-> a, p2 |-> b] : a \in IdLists, b \in IdLists}
NoHtml == [served |-> FALSE, p1 |-> << >>, p2 |-> << >>]

\* The videos fetchRelatedVideos is called for.
CurrentIds == 1..2

\* html.match(pattern) || []: the matched strings of one pattern.
match(ids, prefix) == [k \in 1..Len(ids) |-> Match(prefix, ids[k])]

\* [...new Set(xs)]: the first occurrence of each value, in order.
RECURSIVE Set(_)
Set(xs) ==
  IF xs = << >> THEN << >>
  ELSE LET seen == Set(SubSeq(xs, 1, Len(xs) - 1))
           x == xs[Len(xs)]
       IN  IF \E k \in 1..Len(seen) : seen[k] = x THEN seen ELSE Append(seen, x)

\* s.replace('"videoId":"', '').replace('watch?v=', ''): an id has neither
\* prefix inside it, so the prefix of the match is what goes.
stripPrefixes(m) == m.id

\* The videoIds both functions derive from a page: the matches of the two
\* patterns, de-duplicated as strings, then stripped of their prefixes.
extractIds(p1, p2) ==
  LET unique == Set(match(p1, VideoIdPrefix) \o match(p2, WatchPrefix))
  IN  [k \in 1..Len(unique) |-> stripPrefixes(unique[k])]

\* .filter(id => id !== videoId)
filterOut(ids, videoId) == SelectSeq(ids, LAMBDA id : id # videoId)

\* searchYouTube, given the matches of the results page.
searchYouTube(p1, p2) == slice(extractIds(p1, p2), 0, SearchCap)

\* fetchRelatedVideos(videoId, page), given the matches of the watch page.
fetchRelatedVideos(p1, p2, videoId, page) ==
  LET videoIds == filterOut(extractIds(p1, p2), videoId)
      start == page * RelatedPageSize
  IN  slice(videoIds, start, start + RelatedPageSize)

\* The content behind the proxy, which the fetches of a behaviour read.
PageServed ==
  /\ ~html.served
  /\ html' \in Pages
  /\ Did("page", "served", NoOptions)
  /\ UNCHANGED <<searchResult, relatedFor, relatedResult>>
  /\ UNCHANGED <<sdkVars, iconVars, translateVars, historyVars, promptVars, createVars,
                 themeVars, es5Vars, autoPlayVars>>

\* searchYouTube(query) returns for the page served; a failed fetch
\* rejects the promise and no list is returned.
CallSearchYouTube ==
  /\ html.served
  /\ \/ /\ searchResult' = searchYouTube(html.p1, html.p2)
        /\ Did("searchYouTube", "ok", NoOptions)
     \/ /\ UNCHANGED searchResult
        /\ Did("searchYouTube", "rejected", NoOptions)
  /\ UNCHANGED <<html, relatedFor, relatedResult>>
  /\ UNCHANGED <<sdkVars, iconVars, translateVars, historyVars, promptVars, createVars,
                 themeVars, es5Vars, autoPlayVars>>

\* fetchRelatedVideos(videoId, page) returns for the page served; a
\* failed fetch yields the empty list.
CallFetchRelatedVideos ==
  /\ html.served
  /\ \E videoId \in CurrentIds, page \in 0..MaxPage :
       /\ relatedFor' = videoId
       /\ \/ /\ relatedResult' = fetchRelatedVideos(html.p1, html.p2, videoId, page)
             /\ Did("fetchRelatedVideos", "ok", NoOptions)
          \/ /\ relatedResult' = << >>
             /\ Did("fetchRelatedVideos", "failed", NoOptions)
  /\ UNCHANGED <<html, searchResult>>
  /\ UNCHANGED <<sdkVars, iconVars, translateVars, historyVars, promptVars, createVars,
                 themeVars, es5Vars, autoPlayVars>>

(* ------------------------ now-playing view ---------------------------- *)

\* Auto-play timers set in one behaviour.
MaxTimers == 3

TimerIds == 1..MaxTimers

\* The videos of the view and the related lists fetchRelatedVideos yields.
PlayableIds == 1..2
RelatedLists == {<< >>} \cup {<<a>> : a \in PlayableIds}
                  \cup {l \in {<<a, b>> : a \in PlayableIds, b \in PlayableIds} :
                          l[1] # l[2]}

\* clearAutoPlayTimer.
clearAutoPlayTimer ==
  IF autoPlayTimer # 0
  THEN /\ pendingTimers' = pendingTimers \ {autoPlayTimer}
       /\ timerVideos' = [timerVideos EXCEPT ![autoPlayTimer] = << >>]
       /\ autoPlayTimer' = 0
  ELSE UNCHANGED <<pendingTimers, timerVideos, autoPlayTimer>>

\* The effect that runs after every render of the view: the timer is
\* cleared (cleanup of the last render, then the body) and the interaction
\* flag is reset.
renderEffect ==
  /\ clearAutoPlayTimer
  /\ userInteracted' = FALSE

\* Mutant of handleUserInteraction: the timer is left pending.
handleUserInteraction_KeepsTimer ==
  /\ IF ~userInteracted
     THEN /\ userInteracted' = TRUE
          /\ muted' = IF playerReady THEN FALSE ELSE muted
     ELSE UNCHANGED <<userInteracted, muted>>
  /\ UNCHANGED <<pendingTimers, timerVideos, autoPlayTimer>>

\* handleUserInteraction.
handleUserInteraction ==
  /\ IF ~userInteracted
     THEN /\ userInteracted' = TRUE
          /\ muted' = IF playerReady THEN FALSE ELSE muted
     ELSE UNCHANGED <<userInteracted, muted>>
  /\ clearAutoPlayTimer

\* handleRelatedVideoClick(relatedVideo) with the render its navigation
\* brings: the timer is cleared, the video becomes the current one.
handleRelatedVideoClick(relatedVideo) ==
  /\ renderEffect
  /\ currentVideo' = relatedVideo

\* The parent hands the view a video (chosen in the search tab).
VideoOpened ==
  /\ currentVideo = 0
  /\ \E v \in PlayableIds : currentVideo' = v
  /\ renderEffect
  /\ Did("videoOpened", "rendered", NoOptions)
  /\ UNCHANGED <<relatedVideos, playerReady, muted, timersSet, interactedSinceEnd>>
  /\ UNCHANGED <<sdkVars, iconVars, translateVars, historyVars, promptVars, createVars,
                 themeVars, es5Vars, searchVars>>

\* onReady of the player.
PlayerReady ==
  /\ currentVideo # 0 /\ ~playerReady
  /\ playerReady' = TRUE
  /\ Did("playerReady", "ok", NoOptions)
  /\ UNCHANGED <<currentVideo, relatedVideos, muted, userInteracted, autoPlayTimer,
                 pendingTimers, timerVideos, timersSet, interactedSinceEnd>>
  /\ UNCHANGED <<sdkVars, iconVars, translateVars, historyVars, promptVars, createVars,
                 themeVars, es5Vars, searchVars>>

\* loadVideos / loadMore: setRelatedVideos with the fetched list; the view
\* renders and its effect runs.
RelatedLoaded ==
  /\ currentVideo # 0
  /\ \E videos \in RelatedLists :
       /\ \A k \in 1..Len(videos) : videos[k] # currentVideo
       /\ relatedVideos' = videos
  /\ renderEffect
  /\ Did("relatedLoaded", "rendered", NoOptions)
  /\ UNCHANGED <<currentVideo, playerReady, muted, timersSet, interactedSinceEnd>>
  /\ UNCHANGED <<sdkVars, iconVars, translateVars, historyVars, promptVars, createVars,
                 themeVars, es5Vars, searchVars>>

\* Any other render of the view (resize, loading flag, video info).
Rerender ==
  /\ currentVideo # 0
  /\ renderEffect
  /\ Did("rerender", "rendered", NoOptions)
  /\ UNCHANGED <<currentVideo, relatedVideos, playerReady, muted, timersSet,
                 interactedSinceEnd>>
  /\ UNCHANGED <<sdkVars, iconVars, translateVars, historyVars, promptVars, createVars,
                 themeVars, es5Vars, searchVars>>

\* onEnd of the player: handleVideoEnd.
VideoEnds ==
  /\ currentVideo # 0
  /\ timersSet < MaxTimers
  /\ timersSet' = timersSet + 1
  /\ userInteracted' = FALSE
  /\ autoPlayTimer' = timersSet + 1
  /\ pendingTimers' = (pendingTimers \ {autoPlayTimer}) \cup {timersSet + 1}
  /\ timerVideos' = [t \in TimerIds |->
                       IF t = timersSet + 1 THEN relatedVideos
                       ELSE IF t = autoPlayTimer THEN << >> ELSE timerVideos[t]]
  /\ interactedSinceEnd' = FALSE
  /\ Did("videoEnd", "timerSet", NoOptions)
  /\ UNCHANGED <<currentVideo, relatedVideos, playerReady, muted>>
  /\ UNCHANGED <<sdkVars, iconVars, translateVars, historyVars, promptVars, createVars,
                 themeVars, es5Vars, searchVars>>

\* A touch, click or scroll inside the view.
UserInteracts ==
  /\ currentVideo # 0
  /\ handleUserInteraction
  /\ interactedSinceEnd' = TRUE
  /\ Did("interaction", IF autoPlayTimer # 0 THEN "cleared" ELSE "noTimer", NoOptions)
  /\ UNCHANGED <<currentVideo, relatedVideos, playerReady, timersSet>>
  /\ UNCHANGED <<sdkVars, iconVars, translateVars, historyVars, promptVars, createVars,
                 themeVars, es5Vars, searchVars>>

\* The user picks a related video: the click runs handleRelatedVideoClick
\* on the entry and then, bubbling, handleUserInteraction on the view
\* (which finds the timer cleared); the render of the navigation follows.
RelatedVideoClicked ==
  /\ \E k \in 1..Len(relatedVideos) : handleRelatedVideoClick(relatedVideos[k])
  /\ muted' = IF ~userInteracted /\ playerReady THEN FALSE ELSE muted
  /\ interactedSinceEnd' = TRUE
  /\ Did("relatedClick", IF autoPlayTimer # 0 THEN "cleared" ELSE "noTimer", NoOptions)
  /\ UNCHANGED <<relatedVideos, playerReady, timersSet>>
  /\ UNCHANGED <<sdkVars, iconVars, translateVars, historyVars, promptVars, createVars,
                 themeVars, es5Vars, searchVars>>

\* A 5-second timer of handleVideoEnd fires.
AutoPlayTimerFires ==
  /\ \E t \in pendingTimers :
       IF ~userInteracted /\ Len(timerVideos[t]) > 0
       THEN /\ currentVideo' = timerVideos[t][1]
            /\ userInteracted' = FALSE
            /\ autoPlayTimer' = 0
            /\ pendingTimers' = pendingTimers \ {t, autoPlayTimer}
            /\ timerVideos' = [u \in TimerIds |->
                                 IF u \in {t, autoPlayTimer} THEN << >>
                                 ELSE timerVideos[u]]
            /\ Did("autoPlayTimer", "selected", NoOptions)
       ELSE /\ pendingTimers' = pendingTimers \ {t}
            /\ timerVideos' = [timerVideos EXCEPT ![t] = << >>]
            /\ Did("autoPlayTimer", "skipped", NoOptions)
            /\ UNCHANGED <<currentVideo, userInteracted, autoPlayTimer>>
  /\ UNCHANGED <<relatedVideos, playerReady, muted, timersSet, interactedSinceEnd>>
  /\ UNCHANGED <<sdkVars, iconVars, translateVars, historyVars, promptVars, createVars,
                 themeVars, es5Vars, searchVars>>

(* --------------------------- specifications --------------------------- *)

Init ==
  /\ sig = [k \in Signals |-> FALSE]
  /\ mobile \in BOOLEAN
  /\ scriptRun = FALSE
  /\ listening = FALSE
  /\ readySignals = 0
  /\ sdkInitialized = FALSE
  /\ initializeSDKRuns = 0
  /\ showTimers = [d \in Delays |-> 0]
  /\ bipListeners = 0
  /\ createPc = [i \in Ids |-> "idle"]
  /\ sheets = {}
  /\ overlays = {}
  /\ isOpen = FALSE
  /\ element = 0
  /\ overlay = 0
  /\ themeListener = 0
  /\ mqlListeners = {}
  /\ bodyOverflow = ""
  /\ openTimers = 0
  /\ closeTimers = 0
  /\ closing = << >>
  /\ favicon = ""
  /\ iconSize = DefaultSize
  /\ iconPc = "idle"
  /\ response = NoResponse
  /\ manifest = Fulfilled(NullManifest)
  /\ probes = << >>
  /\ appIcon = ""
  /\ language = << >>
  /\ userLanguage = << >>
  /\ trKey = "clickOnBrowser"
  /\ trFallback = << >>
  /\ trResult = << >>
  /\ stored = NoItem
  /\ saves = << >>
  /\ deferredPrompt = 0
  /\ bipEvents = 0
  /\ defaultPrevented = {}
  /\ createManifest = Fulfilled(NullManifest)
  /\ manifestLoads = 0
  /\ appName = ""
  /\ markupIcon = ""
  /\ dark = FALSE
  /\ createColors = [i \in Ids |-> NoColors]
  /\ sheetStyle = [i \in Ids |-> NoColors]
  /\ overlayStyle = [i \in Ids |-> NoColors]
  /\ es5Pc = "idle"
  /\ es5Favicon = ""
  /\ nameLoads = 0
  /\ iconLoads = << >>
  /\ callbackCalls = 0
  /\ es5Markup = << >>
  /\ html = NoHtml
  /\ searchResult = << >>
  /\ relatedFor = 0
  /\ relatedResult = << >>
  /\ currentVideo = 0
  /\ relatedVideos = << >>
  /\ playerReady = FALSE
  /\ muted = TRUE
  /\ userInteracted = FALSE
  /\ autoPlayTimer = 0
  /\ pendingTimers = {}
  /\ timerVideos = [t \in TimerIds |-> << >>]
  /\ timersSet = 0
  /\ interactedSinceEnd = FALSE
  /\ last = [op |-> "none", br |-> "none", arg |-> NoOptions]

\* Every step of the widget, with every input.
Next ==
  \/ ScriptTail
  \/ DocumentReady
  \/ CallInit(Options)
  \/ CallShouldShowDrawer(Options)
  \/ ShowTimerFires
  \/ CallShowDrawer
  \/ ManifestLoaded
  \/ IconResolved
  \/ CallOpen
  \/ CallCloseDrawer
  \/ OpenTimerFires
  \/ CloseTimerFires
  \/ SignalChanges(Signals)
  \/ BeforeInstallPrompt
  \/ CallGetAppIcon
  \/ ManifestFetchSettles(Responses)
  \/ IconProbeSettles
  \/ FaviconProbeSettles
  \/ CallTranslateText
  \/ CallSaveWatchedVideo
  \/ StorageReset
  \/ CreateManifestSettles
  \/ CreateCompletes
  \/ ThemeChanges
  \/ CallCreateES5
  \/ NameLoadSettles
  \/ IconLoadSettles
  \/ PageServed
  \/ CallSearchYouTube
  \/ CallFetchRelatedVideos
  \/ VideoOpened
  \/ PlayerReady
  \/ RelatedLoaded
  \/ Rerender
  \/ VideoEnds
  \/ UserInteracts
  \/ RelatedVideoClicked
  \/ AutoPlayTimerFires

Spec == Init /\ [][Next]_vars

\* The drawer's life on a mobile device: init is called without options and
\* the display mode is the one signal that changes.  The script's tail runs
\* once; the DOMContentLoaded path of safeInitialize is part of NextFacade.
NextDrawer ==
  \/ ScriptTail
  \/ CallInit({NoOptions})
  \/ ShowTimerFires
  \/ CallShowDrawer
  \/ ManifestLoaded
  \/ IconResolved
  \/ CallOpen
  \/ CallCloseDrawer
  \/ OpenTimerFires
  \/ CloseTimerFires
  \/ SignalChanges({"displayModeStandalone"})

InitDrawer == Init /\ mobile

SpecDrawer == InitDrawer /\ [][NextDrawer]_vars

\* The facade's decisions, for every signal and every options object; the
\* drawer the timers would create is left out.
NextFacade ==
  \/ ScriptTail
  \/ DocumentReady
  \/ CallInit(Options)
  \/ CallShouldShowDrawer(Options)
  \/ ShowTimerFires
  \/ SignalChanges(Signals)

SpecFacade == Init /\ [][NextFacade]_vars

\* utils.getAppIcon with utils.loadManifest, for every way the fetch and
\* the probes settle.
NextIcon ==
  \/ CallGetAppIcon
  \/ ManifestFetchSettles(Responses)
  \/ IconProbeSettles
  \/ FaviconProbeSettles

SpecIcon == Init /\ [][NextIcon]_vars

\* utils.translateText, for every language, key and fallback.
NextTranslate == CallTranslateText

SpecTranslate == Init /\ [][NextTranslate]_vars

\* The watch history of the search tab.
NextHistory ==
  \/ CallSaveWatchedVideo
  \/ StorageReset

SpecHistory == Init /\ [][NextHistory]_vars

\* init and the install-prompt events of the browser.
NextPrompt ==
  \/ ScriptTail
  \/ CallInit({NoOptions})
  \/ ShowTimerFires
  \/ SignalChanges({"displayModeStandalone"})
  \/ BeforeInstallPrompt

SpecPrompt == Init /\ [][NextPrompt]_vars

\* The drawer under changes of the platform's colour scheme.
NextTheme ==
  \/ ScriptTail
  \/ CallShowDrawer
  \/ ManifestLoaded
  \/ IconResolved
  \/ CallOpen
  \/ CallCloseDrawer
  \/ OpenTimerFires
  \/ CloseTimerFires
  \/ ThemeChanges

SpecTheme == InitDrawer /\ [][NextTheme]_vars

\* Drawer.create of the ES5 build, for every way its requests end.
NextES5 ==
  \/ CallCreateES5
  \/ NameLoadSettles
  \/ IconLoadSettles

SpecES5 == Init /\ [][NextES5]_vars

\* The lists of the search tab and of the now-playing view.
NextSearch ==
  \/ PageServed
  \/ CallSearchYouTube
  \/ CallFetchRelatedVideos

SpecSearch == Init /\ [][NextSearch]_vars

\* The now-playing view and its auto-play timer.
NextAutoPlay ==
  \/ VideoOpened
  \/ PlayerReady
  \/ RelatedLoaded
  \/ Rerender
  \/ VideoEnds
  \/ UserInteracts
  \/ RelatedVideoClicked
  \/ AutoPlayTimerFires

SpecAutoPlay == Init /\ [][NextAutoPlay]_vars

\* One showDrawer at a time, with Drawer.create in detail: its own manifest
\* load, then utils.getAppIcon with its load and its probes.
NextCreate ==
  \/ ScriptTail
  \/ CallShowDrawer
  \/ CreateManifestSettles
  \/ ManifestFetchSettles(CreateResponses)
  \/ IconProbeSettles
  \/ FaviconProbeSettles
  \/ CreateCompletes

SpecCreate == InitDrawer /\ [][NextCreate]_vars

\* Every fetch and every probe is answered.
SpecCreateFair ==
  /\ SpecCreate
  /\ WF_vars(CreateManifestSettles)
  /\ WF_vars(ManifestFetchSettles(CreateResponses))
  /\ WF_vars(IconProbeSettles)
  /\ WF_vars(FaviconProbeSettles)
  /\ WF_vars(CreateCompletes)


(* ------------------------------ claims -------------------------------- *)

AnySignal == \E k \in Signals : sig[k]

\* C1: in every reachable state at most one drawer instance (an overlay and
\* a sheet inserted by Drawer.create) is present in the document.
C1_AtMostOneDrawerInDocument ==
  Cardinality(sheets) <= 1 /\ Cardinality(overlays) <= 1

\* C2: a theme listener of the drawer is attached only while Drawer.isOpen
\* is true, and once close() has run none remains attached.
C2_ThemeListenerOnlyWhileOpen ==
  /\ mqlListeners # {} => isOpen
  /\ last.op = "close" => mqlListeners = {}

\* C3: open() on a drawer that is already open, or that has not been
\* created, changes no drawer state, inserts no DOM and schedules no timer;
\* so does the open() showDrawer issues after create when the drawer is
\* already open.
C3_OpenTwiceIsIdempotent ==
  [][ /\ (last'.op = "open" /\ (isOpen \/ element = 0))
         => UNCHANGED <<isOpen, element, overlay, bodyOverflow, sheets, overlays,
                        openTimers, closeTimers, themeListener, mqlListeners, createPc,
                        showTimers>>
      /\ (last'.op = "created" /\ isOpen)
         => UNCHANGED <<isOpen, bodyOverflow, openTimers, closeTimers>>
    ]_vars

C3_Witness == last.op = "open" /\ last.br = "alreadyOpen" /\ isOpen /\ element # 0

\* C4: close() on a drawer that is not open (never opened, or closed
\* already) mutates no DOM, leaves isOpen / element / overlay /
\* themeListener and the scroll lock unchanged and schedules no timer.
C4_CloseWhenNotOpenIsNoOp ==
  [][ (last'.op = "close" /\ ~isOpen)
        => UNCHANGED <<sheets, overlays, isOpen, element, overlay, themeListener,
                       mqlListeners, bodyOverflow, closeTimers, openTimers, createPc,
                       showTimers>>
    ]_vars

C4_Witness ==
  /\ last.op = "close" /\ last.br = "notOpen"
  /\ \A i \in Ids : createPc[i] = "idle"
  /\ element = 0 /\ sheets = {}

\* C5: the isAlreadyInstalled flag init computes is true exactly when at
\* least one of the four signals is true, and it equals utils.isStandalone()
\* for the same signals.
C5_InstalledIffAnySignal ==
  /\ isAlreadyInstalled(sig) <=> AnySignal
  /\ isAlreadyInstalled(sig) <=> isStandalone(sig)
  /\ last.op = "init" => (last.br = "installed" <=> AnySignal)

C5_Witness ==
  /\ last.op = "init" /\ last.br = "installed"
  /\ sig = [k \in Signals |-> k = "iosStandalone"]

\* C6: init called while a standalone signal is true is a no-op for every
\* config: no timer, no beforeinstallprompt listener, no drawer, no change
\* of the widget's state.
C6_InitWhenInstalledIsNoOp ==
  [][ (last'.op = "init" /\ AnySignal) => UNCHANGED <<sig, mobile, boot, widget>> ]_vars

C6_Witness ==
  /\ last.op = "init" /\ AnySignal
  /\ last.arg.autoShow = <<TRUE>> /\ last.arg.delay # << >>

\* C7: init called while no standalone signal is true schedules exactly one
\* showDrawer timer, with delay config.delay (500 when not given), if and
\* only if config.autoShow and shouldShowDrawer(config) hold; otherwise it
\* schedules none; it starts no drawer creation itself.
C7_InitSchedulesOneTimerIffAutoShow ==
  [][ (last'.op = "init" /\ ~AnySignal)
        => LET options  == last'.arg
               autoShow == options.autoShow # <<FALSE>>
               delay    == IF options.delay = << >> THEN 500 ELSE options.delay[1]
           IN  /\ IF autoShow /\ shouldShowDrawer(options, sig, mobile)
                  THEN showTimers' = [showTimers EXCEPT ![delay] = @ + 1]
                  ELSE showTimers' = showTimers
               /\ UNCHANGED <<createPc, sheets, overlays>>
    ]_vars

C7_Witness ==
  /\ last.op = "init" /\ last.br = "scheduled"
  /\ last.arg.delay = << >> /\ last.arg.mobileOnly = <<TRUE>>
  /\ showTimers[500] = 1

\* C8: showDrawer re-checks the standalone signals when it runs: when one
\* has become true since init set the timer, showDrawer starts no drawer
\* creation, opens nothing and leaves the Drawer and the scroll lock as
\* they are.
C8_ShowDrawerRechecksStandalone ==
  [][ (last'.op \in {"showTimer", "showDrawer", "forceShowDrawer"} /\ AnySignal)
        => UNCHANGED drawerVars ]_vars

C8_Witness == last.op = "showTimer" /\ last.br = "standalone" /\ AnySignal

\* C9: however many document-ready signals reach safeInitialize,
\* initializeSDK runs at most once.
C9_InitializeSDKRunsAtMostOnce == initializeSDKRuns <= 1

C9_Witness == readySignals >= 2 /\ initializeSDKRuns = 1

\* C10: shouldShowDrawer(config) is false in standalone mode, false when
\* config.mobileOnly is set and the device is not mobile, and true
\* otherwise, whatever the rest of the config and the widget's state.
C10_ShouldShowDrawerTable ==
  last.op = "shouldShowDrawer"
    => (last.br = "true" <=> (~AnySignal /\ (last.arg.mobileOnly # <<TRUE>> \/ mobile)))

C10_Witness ==
  /\ last.op = "shouldShowDrawer" /\ last.br = "false"
  /\ ~AnySignal /\ last.arg.mobileOnly = <<TRUE>> /\ ~mobile


\* The Open state of the drawer: isOpen with both nodes in the document.
DrawerIsOpen ==
  isOpen /\ element # 0 /\ overlay # 0 /\ element \in sheets /\ overlay \in overlays

\* C11: from the Open state close() at once clears isOpen, restores the
\* page scroll and detaches the theme listener while both nodes stay in the
\* document; the nodes of a closed drawer stay until its 300 ms timer fires,
\* and once it has fired they are out of the document and Drawer.element and
\* Drawer.overlay are null.
C11_CloseThenTeardown ==
  [][ /\ (last'.op = "close" /\ DrawerIsOpen)
         => /\ isOpen' = FALSE /\ bodyOverflow' = ""
            /\ themeListener' = 0 /\ themeListener \notin mqlListeners'
            /\ element \in sheets' /\ overlay \in overlays'
            /\ UNCHANGED <<sheets, overlays, element, overlay>>
      /\ (last'.op # "closeTimer")
         => \A k \in 1..Len(closing) :
              /\ closing[k] \in sheets => closing[k] \in sheets'
              /\ closing[k] \in overlays => closing[k] \in overlays'
      /\ (last'.op = "closeTimer")
         => /\ Head(closing) \notin sheets' /\ Head(closing) \notin overlays'
            /\ element' = 0 /\ overlay' = 0
    ]_vars

\* C12: the page scroll lock is set exactly while Drawer.isOpen is true.
C12_ScrollLockIffOpen == (bodyOverflow = "hidden") <=> isOpen

C12_Witness ==
  /\ last.op = "close" /\ last.br = "closed"
  /\ bodyOverflow = "" /\ ~isOpen /\ element \in sheets


C13_AppIconNeverEmpty ==
  /\ iconPc \in {"idle", "manifest", "probeIcon", "probeFavicon", "done"}
  /\ iconPc = "done" => appIcon # ""

C13_Witness ==
  /\ iconPc = "done" /\ last.op = "iconProbe"
  /\ response.kind = "networkError" /\ favicon = ""
  /\ \A k \in 1..Len(probes) : probes[k].outcome # "ok"
  /\ appIcon = createFallbackIcon

\* C14: loadManifest never fails outward: however the fetch settles its
\* promise is fulfilled, with the parsed manifest on a 2xx response that
\* parses and otherwise with the default manifest, whose single icon is the
\* HTML favicon link when the page has one.
C14_LoadManifestNeverFails ==
  last.op = "loadManifest" =>
    /\ ~manifest.rejected
    /\ response.kind = "ok" => manifest.value = response.body
    /\ response.kind # "ok" =>
         /\ ~manifest.value.isNull
         /\ manifest.value.icons # << >>
         /\ Len(manifest.value.icons[1]) = 1
         /\ favicon # "" => manifest.value.icons[1][1].src = favicon
         /\ favicon = "" => manifest.value.icons[1][1].src = DefaultFaviconPath

C14_Witness ==
  /\ last.op = "loadManifest" /\ response.kind = "non2xx"
  /\ favicon # "" /\ manifest.value.icons[1][1].src = favicon

\* The manifest of the finished call has a non-empty icons array.
HasIcons ==
  ~manifest.value.isNull /\ manifest.value.icons # << >> /\ Len(manifest.value.icons[1]) > 0

\* The icon the order "exact size match, else substring match, else first"
\* picks from a non-empty icons array.
ChosenIcon ==
  LET icons == manifest.value.icons[1]
      E == {k \in 1..Len(icons) : exactTest(icons[k], iconSize) = "true"}
      S == {k \in 1..Len(icons) : substringTest(icons[k], iconSize) = "true"}
      First(K) == CHOOSE k \in K : \A j \in K : k <= j
  IN  IF E # {} THEN icons[First(E)] ELSE IF S # {} THEN icons[First(S)] ELSE icons[1]

\* A probe of that step, for that URL, was issued and succeeded.
ProbedOk(step, url) ==
  \E k \in 1..Len(probes) :
    probes[k].step = step /\ probes[k].url = url /\ probes[k].outcome = "ok"

\* The sources in strict order, each probed at most once, nothing returned
\* unprobed.
StrictOrder ==
  LET iconOk == HasIcons /\ ChosenIcon.src # "" /\ ProbedOk("icon", ChosenIcon.src)
      favOk  == favicon # "" /\ ProbedOk("favicon", favicon)
  IN  /\ appIcon = IF iconOk THEN ChosenIcon.src
                   ELSE IF favOk THEN favicon ELSE createFallbackIcon
      /\ Len(probes) <= 2
      /\ \A k \in 1..Len(probes) :
           /\ probes[k].step = "icon" => k = 1 /\ HasIcons /\ probes[k].url = ChosenIcon.src
           /\ probes[k].step = "favicon" =>
                /\ k = Len(probes) /\ probes[k].url = favicon
                /\ k = 2 => probes[1].step = "icon" /\ probes[1].outcome # "ok"
      /\ appIcon # createFallbackIcon => \E k \in 1..Len(probes) :
                                           probes[k].url = appIcon /\ probes[k].outcome = "ok"

\* Choosing the manifest icon threw (a malformed entry was reached).
SelectionThrew == HasIcons /\ selectIcon(manifest.value.icons[1], iconSize).threw

\* C19 as stated: getAppIcon tries the manifest icon (exact size match, else
\* substring match, else the first), then the HTML favicon, then the SVG, in
\* this order, each probed at most once, and returns no unprobed URL.
C19_StrictOrderProbedOnly == iconPc = "done" => StrictOrder

\* C19, amended: as stated unless choosing the manifest icon throws on a
\* malformed entry; then no probe is issued and the HTML favicon, when the
\* page has one, is returned unprobed, else the SVG.
C19_StrictOrderUnlessSelectionThrows ==
  iconPc = "done" =>
    IF SelectionThrew
    THEN /\ probes = << >>
         /\ appIcon = IF favicon # "" THEN favicon ELSE createFallbackIcon
    ELSE StrictOrder

C19_Witness ==
  /\ iconPc = "done" /\ ~SelectionThrew /\ HasIcons
  /\ Len(manifest.value.icons[1]) = 2
  /\ ChosenIcon = manifest.value.icons[1][2]
  /\ exactTest(ChosenIcon, iconSize) = "false"
  /\ Len(probes) = 2 /\ probes[1].outcome = "notOk" /\ probes[2].outcome = "ok"
  /\ appIcon = favicon


\* The language code of the last translateText call: the first two
\* characters of navigator.language, else of navigator.userLanguage, else "en".
CallLangCode ==
  LET tag == IF language # << >> /\ language[1] # << >> THEN language[1]
             ELSE IF userLanguage # << >> /\ userLanguage[1] # << >> THEN userLanguage[1]
             ELSE <<"e", "n">>
  IN  IF Len(tag) <= 2 THEN tag ELSE <<tag[1], tag[2]>>

C16_SupportedLocaleWithoutFallbackIsEnglish ==
  last.op = "translateText" =>
    /\ (trKey = "clickOnBrowser" /\ trFallback = <<"Click">>
          /\ CallLangCode \in {<<"e", "n">>, <<"x", "x">>})
         => trResult = <<"Click">>
    /\ (CallLangCode \in DOMAIN translations /\ trKey \in Keys /\ trFallback = << >>)
         => trResult = <<translations[<<"e", "n">>][trKey]>>

\* C16, amended: translateText("clickOnBrowser", "Click") returns "Click"
\* for locale "en" and for the unsupported locale "xx"; for a supported
\* locale a call without fallback returns that locale's own text of the key.
C16_SupportedLocaleWithoutFallbackIsLocaleText ==
  last.op = "translateText" =>
    /\ (trKey = "clickOnBrowser" /\ trFallback = <<"Click">>
          /\ CallLangCode \in {<<"e", "n">>, <<"x", "x">>})
         => trResult = <<"Click">>
    /\ (CallLangCode \in DOMAIN translations /\ trKey \in Keys /\ trFallback = << >>)
         => trResult = <<translations[CallLangCode][trKey]>>

C16_Witness ==
  /\ last.op = "translateText"
  /\ language = << <<"i", "t", "-", "I", "T">> >>
  /\ trKey = "clickOnBrowser" /\ trFallback = << >>
  /\ trResult = <<"Clicca">>


\* The stored watch history as the next read parses it.
Watched == IF stored.t = "json" THEN stored.v ELSE << >>

\* The videoIds of a list of videos, in list order.
VideoIdsOf(list) == [k \in 1..Len(list) |-> list[k].videoId]

\* The videoIds of a save history, most recently saved first, each once.
RECURSIVE MostRecentFirst(_)
MostRecentFirst(h) ==
  IF h = << >> THEN << >>
  ELSE LET id == h[Len(h)].videoId
           Older(v) == v.videoId # id
       IN  <<id>> \o MostRecentFirst(SelectSeq(SubSeq(h, 1, Len(h) - 1), Older))

\* C17: after every saveWatchedVideo the stored history has at most 10
\* entries with pairwise distinct videoIds, the saved video is at index 0
\* and the list is in most-recently-saved-first order; saving a videoId that
\* is in the list moves it to the front and keeps the length, and saving a
\* new video into a full list drops the oldest entry.
C17_HistoryCappedDistinctRecentFirst ==
  [][ last'.op = "saveWatchedVideo" =>
        LET old   == Watched
            new   == Watched'
            video == saves'[Len(saves')]
            order == MostRecentFirst(saves')
            InOld == \E k \in 1..Len(old) : old[k].videoId = video.videoId
        IN  /\ stored'.t = "json"
            /\ Len(new) <= 10
            /\ \A j, k \in 1..Len(new) : new[j].videoId = new[k].videoId => j = k
            /\ new[1] = video
            /\ VideoIdsOf(new) = SubSeq(order, 1, IF Len(order) <= 10 THEN Len(order) ELSE 10)
            /\ \A k \in 2..Len(new) : \E j \in 1..Len(old) : new[k] = old[j]
            /\ InOld => Len(new) = Len(old)
            /\ (~InOld /\ Len(old) < 10) => Len(new) = Len(old) + 1
            /\ (~InOld /\ Len(old) = 10) =>
                 /\ Len(new) = 10
                 /\ \A k \in 1..10 : new[k].videoId # old[10].videoId
                 /\ \A k \in 1..9 : new[k + 1] = old[k]
    ]_vars

C17_Witness ==
  /\ last.op = "saveWatchedVideo" /\ last.br = "added"
  /\ Cardinality(SavedIds) = 11 /\ Len(saves) = 12
  /\ Len(Watched) = 10
  /\ Watched[1].videoId = 11
  /\ \A k \in 1..10 : Watched[k].videoId # 2

\* C18: once init has registered its listener (the app was not installed),
\* every beforeinstallprompt event delivered has its default behaviour
\* suppressed and becomes window.deferredPrompt, which therefore holds the
\* most recent event; no other step of the widget writes deferredPrompt or
\* gives an event its default behaviour back.
C18_PromptInterceptedAndKept ==
  [][ /\ (last'.op = "beforeinstallprompt" /\ bipListeners > 0)
         => /\ bipEvents' \in defaultPrevented'
            /\ deferredPrompt' = bipEvents'
            /\ defaultPrevented \subseteq defaultPrevented'
      /\ (last'.op # "beforeinstallprompt")
         => UNCHANGED <<deferredPrompt, defaultPrevented>>
    ]_vars

C18_Witness ==
  /\ last.op = "beforeinstallprompt" /\ last.br = "intercepted"
  /\ bipListeners > 0
  /\ deferredPrompt = 2 /\ defaultPrevented = {1, 2}


\* Some Drawer.create run is between its start and its DOM insertion.
CreateInFlight == \E i \in Ids : createPc[i] \in {"manifest", "icon"}

\* C21: a close() issued while a create is in flight cancels nothing (no
\* create leaves its course) and, with no drawer open, changes nothing at
\* all; when a create's chain resolves its drawer is inserted into the
\* document, referenced by Drawer.element / Drawer.overlay, and the drawer
\* is open.
C21_CloseDuringCreateCancelsNothing ==
  [][ /\ (last'.op = "close" /\ CreateInFlight)
         => /\ createPc' = createPc
            /\ (~isOpen \/ element = 0) => UNCHANGED drawerVars
      /\ (last'.op = "created")
         => \E i \in Ids :
              /\ createPc[i] = "icon" /\ createPc'[i] = "done"
              /\ i \in sheets' /\ i \in overlays'
              /\ element' = i /\ overlay' = i
              /\ isOpen' /\ bodyOverflow' = "hidden"
    ]_vars

C21_Witness ==
  /\ last.op = "close" /\ last.br = "notOpen"
  /\ CreateInFlight
  /\ sheets = {} /\ element = 0 /\ ~isOpen

\* C22: one Drawer.create loads the manifest exactly once, and the name
\* and the icon in its markup come from that one manifest result.
C22_OneManifestLoadPerCreate ==
  [][ last'.op = "created"
        => /\ manifestLoads = 1
           /\ createManifest = manifest
    ]_vars

\* C23: however the manifest fetches and the icon probes settle, a
\* showDrawer call that started outside standalone mode never fails and
\* eventually has its drawer inserted in the document and open.
C23_ShowDrawerCompletes ==
  /\ [](\A i \in Ids : createPc[i] # "rejected")
  /\ \A i \in Ids :
       (createPc[i] = "manifest")
         ~> (createPc[i] = "done" /\ i \in sheets /\ i \in overlays /\ isOpen)

C23_Witness ==
  /\ last.op = "created"
  /\ appName = "ReactPWA"
  /\ markupIcon = createFallbackIcon
  /\ isOpen /\ element \in sheets /\ overlay \in overlays

\* The nodes Drawer.element / Drawer.overlay refer to show the palette of
\* the current dark-mode flag.
Patched ==
  /\ element # 0 => sheetStyle[element] = getThemeColors(dark)
  /\ overlay # 0 => overlayStyle[overlay] = getThemeColors(dark)

\* C24: a theme-change event received while the drawer is open patches the
\* overlay's and the sheet's colours to the palette of the new dark-mode
\* flag and changes nothing else: no node is inserted or removed, and
\* isOpen, the references, the scroll lock and the listeners stay.
C24_ThemeChangePatchesOpenDrawer ==
  [][ (last'.op = "themeChange" /\ isOpen)
        => /\ Patched'
           /\ UNCHANGED <<sheets, overlays, isOpen, element, overlay, bodyOverflow,
                          themeListener, mqlListeners, bipListeners>>
    ]_vars

\* C25: whenever Drawer.isOpen is true, Drawer.element and Drawer.overlay
\* are non-null and their nodes are in the document.
C25_OpenImpliesLiveNodes ==
  isOpen => /\ element # 0 /\ overlay # 0
            /\ element \in sheets /\ overlay \in overlays

\* C26: the teardown timer of a close() removes the nodes of the drawer
\* that close() closed and no others.
C26_TeardownRemovesOnlyClosedDrawer ==
  [][ last'.op = "closeTimer"
        => /\ (sheets \ sheets') \subseteq {Head(closing)}
           /\ (overlays \ overlays') \subseteq {Head(closing)}
           /\ Head(closing) \notin sheets'
           /\ Head(closing) \notin overlays'
    ]_vars

\* C27: whenever the page scroll is locked a drawer sheet is in the
\* document, and a closeDrawer() call made then restores the page scroll.
C27_ScrollLockCanBeReleased ==
  [][ /\ bodyOverflow = "hidden" => sheets # {}
      /\ (last'.op = "close" /\ bodyOverflow = "hidden") => bodyOverflow' = ""
    ]_vars

\* C28: in the ES5 build every utils.loadManifest call invokes its callback
\* exactly once, however its request ends, and one Drawer.create inserts
\* its markup (and calls its callback) at most once.
C28_OneCallbackPerLoad ==
  [][ last'.op \in {"nameLoadES5", "iconLoadES5"}
        => /\ callbackCalls' = 1
           /\ Len(es5Markup') <= 1
    ]_vars

\* No videoId occurs twice in the list.
Distinct(ids) == \A j, k \in 1..Len(ids) : ids[j] = ids[k] => j = k

\* C29: the list searchYouTube returns has at most 10 entries, the list
\* fetchRelatedVideos returns has at most 6 and never the current video,
\* and both hold pairwise distinct videoIds, also when one id is matched
\* by both patterns.
C29_VideoListsDistinct ==
  /\ Len(searchResult) <= SearchCap
  /\ Distinct(searchResult)
  /\ Len(relatedResult) <= RelatedPageSize
  /\ \A k \in 1..Len(relatedResult) : relatedResult[k] # relatedFor
  /\ Distinct(relatedResult)

====
